---- MODULE Spec2Model ----
(***************************************************************************)
(* pgconnect: Config, the DB connection wrapper (New, Ping, Close,         *)
(* WithTransaction) and the generic Repository[T] (Create, FindByID,       *)
(* FindAll, FindWhere, FindOne, Update, Delete, Count, Paginate).          *)
(*                                                                         *)
(* Every wrapper method is one call into gorm / database/sql; the model    *)
(* gives that call its documented behaviour on one table of entity T with  *)
(* an auto-generated integer primary key ID and one ordinary column        *)
(* Status.  One caller drives one Connection; the rows live in the         *)
(* database and outlive the Connection.                                    *)
(***************************************************************************)
EXTENDS Integers, Sequences, FiniteSets

(* ------------------------------ bounds --------------------------------- *)
\* Primary keys are 1..MaxID; the key sequence stops generating above it.
MaxID == 2
\* Writes a WithTransaction callback may issue on its transactional handle.
MaxTxWrites == 2
\* Page numbers handed to Paginate are 0..MaxPage.
MaxPage == 2
\* Page sizes handed to Paginate are -1..MaxPageSize.
MaxPageSize == 2

(* --------------------------- program constants ------------------------- *)
\* time.Hour, in seconds: the fixed connection lifetime New applies.
Hour == 3600

Statuses == {"active", "inactive"}
Keys == 1..MaxID
\* The zero value of the primary key: "not set".
ZeroID == 0

(* ------------------------------- errors -------------------------------- *)
\* An error is its %w chain, outermost message first; <<>> is the nil error.
NoError == <<>>
ErrRecordNotFound == <<"record not found">>
ErrMissingWhereClause == <<"WHERE conditions required">>
ErrDuplicateKey == <<"duplicate key value violates unique constraint">>
ErrDBClosed == <<"sql: database is closed">>
ErrDial == <<"dial error">>
ErrInvalidDB == <<"invalid db">>
\* The error a callback makes up itself.
ErrCallback == <<"callback failed">>

\* fmt.Errorf("<msg>: %w", err)
Wrap(msg, err) == <<msg>> \o err

\* The taxonomy of error kinds the operations' failures fall in.
ErrorKind(err) ==
    IF err = NoError THEN "none"
    ELSE IF err[Len(err)] \in {ErrDBClosed[1], ErrDial[1], ErrInvalidDB[1]}
         THEN "ConnectionError"
    ELSE IF err = ErrRecordNotFound THEN "NotFoundError"
    ELSE "QueryError"

(* --------------------------- configuration ----------------------------- *)
DefaultConfig ==
    [Host |-> "localhost", Port |-> "5432", User |-> "postgres",
     Password |-> "postgres", DatabaseName |-> "postgres",
     SSLMode |-> "disable", TimeZone |-> "UTC",
     MaxIdleConns |-> 10, MaxOpenConns |-> 100, LogLevel |-> "silent"]

\* The configurations New is called with: the defaults, and the defaults
\* with other pool limits.
Limits(idle, open) ==
    [DefaultConfig EXCEPT !.MaxIdleConns = idle, !.MaxOpenConns = open]
\* New validates nothing: limits in order, an idle limit above the open
\* limit, and limits that are not positive.
Configs == {DefaultConfig, Limits(2, 5), Limits(10, 5), Limits(-1, -1)}

(* ------------------------------- state --------------------------------- *)
VARIABLES
    db,      \* the Connection New returned: NoDB, or its pool handle
    table,   \* the committed rows of T, in the table's default order
    nextID,  \* the next value of the primary-key sequence
    pc,      \* where the caller is: "idle", or "fn" inside a callback
    tx,      \* the open transactional scope, or NoTx
    last,    \* the operation that returned last: name, inputs, results
    prev     \* for a FindByID: what the operation before it wrote

vars == <<db, table, nextID, pc, tx, last, prev>>

NoDB == [state |-> "none", maxIdle |-> 0, maxOpen |-> 0, maxLifetime |-> 0]
NoTx ==
    [state |-> "none", log |-> <<>>, after |-> <<>>, repo |-> 0,
     aborted |-> FALSE, commits |-> 0, rollbacks |-> 0]
\* The zero value of T, as in `var out T`.
ZeroRec == [ID |-> ZeroID, Status |-> ""]
NoWrite == [op |-> "other", rec |-> ZeroRec, generated |-> FALSE, delta |-> 0]

\* The records a caller passes in: any key (or none), any status.
Models == [ID : {ZeroID} \cup Keys, Status : Statuses]

(* ------------------------ the mapper on one table ---------------------- *)
IDs(t) == {t[i].ID : i \in DOMAIN t}

\* The rows of t a query keeps: every row for the nil query, the rows with
\* the bound status for "status = ?".
NilQuery == [nil |-> TRUE, status |-> ""]
StatusIs(s) == [nil |-> FALSE, status |-> s]
Queries == {StatusIs(s) : s \in Statuses}
Matches(q, rec) == q.nil \/ rec.Status = q.status
Where(t, q) == SelectSeq(t, LAMBDA rec : Matches(q, rec))

\* The row of t with the smallest primary key (ORDER BY id LIMIT 1).
FirstByKey(t) ==
    LET i == CHOOSE i \in DOMAIN t : \A j \in DOMAIN t : t[i].ID <= t[j].ID
    IN  t[i]

\* t without the row of key k.
Without(t, k) == SelectSeq(t, LAMBDA rec : rec.ID # k)

\* t with the row of key rec.ID updated to rec.  The table's default order
\* (no ORDER BY) is the order of the rows in PostgreSQL's heap: an UPDATE
\* writes the new version of the row behind the rows that are there.
Replaced(t, rec) == Append(Without(t, rec.ID), rec)

\* A statement that failed: nothing written, the caller's record untouched.
Failed(err, model, t, nid) ==
    [err |-> err, model |-> model, table |-> t, nextID |-> nid]

\* gorm Create: INSERT; a zero key is filled from the sequence and written
\* back into the caller's record.  The sequence advances even when the
\* insert then fails on the key's uniqueness.
GormCreate(t, nid, model) ==
    LET gen == model.ID = ZeroID
        rec == [model EXCEPT !.ID = IF gen THEN nid ELSE model.ID]
        nid2 == IF gen THEN nid + 1 ELSE nid
    IN  IF rec.ID \in IDs(t)
        THEN Failed(ErrDuplicateKey, model, t, nid2)
        ELSE [err |-> NoError, model |-> rec, table |-> Append(t, rec),
              nextID |-> nid2]

\* Save gone wrong: a plain UPDATE by key, which writes nothing when the
\* key is absent.
GormSaveUpdateOnly(t, nid, model) ==
    IF model.ID = ZeroID THEN GormCreate(t, nid, model)
    ELSE [err |-> NoError, model |-> model,
          table |-> IF model.ID \in IDs(t) THEN Replaced(t, model) ELSE t,
          nextID |-> nid]

\* gorm Save: a zero key is a Create; otherwise UPDATE of every column by
\* key, and when that matched no row, an insert under the given key.
GormSave(t, nid, model) ==
    IF model.ID = ZeroID THEN GormCreate(t, nid, model)
    ELSE IF model.ID \in IDs(t)
    THEN [err |-> NoError, model |-> model, table |-> Replaced(t, model),
          nextID |-> nid]
    ELSE [err |-> NoError, model |-> model, table |-> Append(t, model),
          nextID |-> nid]

\* gorm Delete(model): DELETE by the record's key; without a key there is
\* no condition and gorm refuses.  Deleting no row is no error.
GormDelete(t, nid, model) ==
    IF model.ID = ZeroID THEN Failed(ErrMissingWhereClause, model, t, nid)
    ELSE [err |-> NoError, model |-> model, table |-> Without(t, model.ID),
          nextID |-> nid]

\* First gone wrong: finding no row is reported as success.
GormFirstSwallowsNotFound(t, result) ==
    LET rows == IF result.ID # ZeroID
                THEN SelectSeq(t, LAMBDA rec : rec.ID = result.ID) ELSE t
    IN  IF rows = <<>> THEN [err |-> NoError, out |-> result]
        ELSE [err |-> NoError, out |-> FirstByKey(rows)]

\* gorm First(result, conds) on the rows t the conditions keep: a result
\* whose primary key is set adds the condition that the row has that key;
\* the first row by key is loaded into result, and when there is none the
\* result stays as it was passed.
GormFirst(t, result) ==
    LET rows == IF result.ID # ZeroID
                THEN SelectSeq(t, LAMBDA rec : rec.ID = result.ID) ELSE t
    IN  IF rows = <<>> THEN [err |-> ErrRecordNotFound, out |-> result]
        ELSE [err |-> NoError, out |-> FirstByKey(rows)]

\* gorm Offset(offset).Limit(limit).Find: OFFSET is written only when
\* positive, LIMIT only when positive or, in the builds of gorm that write
\* LIMIT 0 (zeroLimit; the source pins no version), when 0.
OffsetLimit(t, offset, limit, zeroLimit) ==
    LET from == IF offset > 0 THEN offset + 1 ELSE 1
        limited == limit > 0 \/ (limit = 0 /\ zeroLimit)
        upto == IF limited /\ from + limit - 1 < Len(t)
                THEN from + limit - 1 ELSE Len(t)
    IN  SubSeq(t, from, upto)

\* The key condition gone wrong: First(result) with the id left out.
ByKeyDropped(t, id) == t

\* The rows of key id, as the primary-key condition of First keeps them.
ByKey(t, id) == SelectSeq(t, LAMBDA rec : rec.ID = id)

\* The id handed to FindByID is an interface{}: an integer (or a string
\* of digits, which gorm takes for the key), or nil or "", for which gorm
\* builds no condition at all.
NilArg == [nil |-> TRUE, key |-> ZeroID]
KeyArg(k) == [nil |-> FALSE, key |-> k]
KeyCondition(t, id) == IF id.nil THEN t ELSE ByKey(t, id.key)

(* --------------------- transactional scopes (gorm) --------------------- *)
\* A write a callback issued on its transactional handle (tx.log); tx.repo
\* counts the writes it issued through a Repository instead.
TxInsert(rec) == [op |-> "create", rec |-> rec]
TxRemove(rec) == [op |-> "delete", rec |-> rec]
TxSave(rec) == [op |-> "save", rec |-> rec]

\* The table with one logged write applied.
ApplyWrite(t, w) ==
    IF w.op = "create" THEN Append(t, w.rec)
    ELSE IF w.op = "save"
    THEN (IF w.rec.ID \in IDs(t) THEN Replaced(t, w.rec) ELSE Append(t, w.rec))
    ELSE Without(t, w.rec.ID)

\* The keys a scope has written and not yet committed.
LogKeys(log) == {log[i].rec.ID : i \in 1..Len(log)}

\* The table with one write of a scope published.  A row the scope
\* wrote lies in the heap where its statement put it: behind the rows that
\* were there, before the rows of the keys in later, which were written on
\* the pool after it.
PlaceWrite(t, w, later) ==
    LET rest == Without(t, w.rec.ID)
        behind == {i \in DOMAIN rest : rest[i].ID \in later}
    IN  IF w.op \in {"create", "save"} /\ behind # {}
        THEN LET i == CHOOSE j \in behind : \A k \in behind : j <= k
             IN  SubSeq(rest, 1, i - 1) \o <<w.rec>>
                    \o SubSeq(rest, i, Len(rest))
        ELSE ApplyWrite(t, w)

\* What a commit publishes: the writes of the scope in order, each where
\* it was made (after[i] for log[i]).
RECURSIVE ApplyPlaced(_, _, _)
ApplyPlaced(t, log, after) ==
    IF log = <<>> THEN t
    ELSE ApplyPlaced(PlaceWrite(t, Head(log), Head(after)), Tail(log),
                     Tail(after))

\* The table with the writes of a scope applied in order: what the callback
\* reads through its handle.
RECURSIVE Apply(_, _)
Apply(t, log) ==
    IF log = <<>> THEN t ELSE Apply(ApplyWrite(t, Head(log)), Tail(log))

\* sql.Tx Commit and Rollback: the first of them ends the scope, any later
\* one finds it done and changes nothing.  t.state tells which call ended
\* the scope.  A scope in which a statement has failed is aborted by
\* PostgreSQL: its later statements fail, and its COMMIT is answered with
\* ROLLBACK, which the driver returns as an error of Commit.
ErrTxDone == <<"sql: transaction has already been committed or rolled back">>
ErrTxAborted == <<"current transaction is aborted">>
ErrTxCommitRollback == <<"commit unexpectedly resulted in rollback">>
Commit(t) ==
    IF t.state = "open"
    THEN [tx |-> [t EXCEPT !.state = "committed", !.commits = @ + 1],
          err |-> IF t.aborted THEN ErrTxCommitRollback ELSE NoError]
    ELSE [tx |-> t, err |-> ErrTxDone]

\* Whether the writes of a scope that is over were published.
Published(t) == t.state = "committed" /\ ~t.aborted
Rollback(t) ==
    IF t.state = "open"
    THEN [tx |-> [t EXCEPT !.state = "rolledback", !.rollbacks = @ + 1],
          err |-> NoError]
    ELSE [tx |-> t, err |-> ErrTxDone]

\* Transaction gone wrong: it commits whatever the callback returned.
TransactionAlwaysCommits(t, fnErr, panicked) ==
    LET c == IF ~panicked THEN Commit(t) ELSE [tx |-> t, err |-> fnErr]
        d == IF panicked THEN Rollback(c.tx).tx ELSE c.tx
    IN  [tx |-> d, err |-> fnErr]

\* Transaction gone wrong: no deferred rollback, so a panic skips it.
TransactionNoDefer(t, fnErr, panicked) ==
    LET c == IF ~panicked /\ fnErr = NoError THEN Commit(t)
             ELSE [tx |-> t, err |-> fnErr]
        d == IF ~panicked /\ c.err # NoError THEN Rollback(c.tx).tx ELSE c.tx
    IN  [tx |-> d, err |-> c.err]

\* gorm Transaction once the callback has returned fnErr or panicked:
\* commit when it returned nil, and the deferred rollback on a panic, a
\* callback error or a commit error.
Transaction(t, fnErr, panicked) ==
    LET c == IF ~panicked /\ fnErr = NoError THEN Commit(t)
             ELSE [tx |-> t, err |-> fnErr]
        d == IF panicked \/ c.err # NoError THEN Rollback(c.tx).tx ELSE c.tx
    IN  [tx |-> d, err |-> c.err]

(* ------------------------------ bookkeeping ---------------------------- *)
\* What a finished call wrote, for the FindByID that follows it.
Written(l) ==
    IF l.op \in {"Create", "Update", "Delete"} /\ l.err = NoError
    THEN [op |-> l.op, rec |-> l.out, generated |-> l.arg.ID = ZeroID,
          delta |-> l.delta]
    ELSE NoWrite

\* A method gone wrong: the error of the call it makes is swallowed.
ForwardSwallowed(err) == NoError

\* `return <call>.Error`, `return <call>(...)`, `return err`: what the
\* method hands to its caller for the error of the call it made.
Forward(err) == err

\* The record of a call: last.cause is the error of the underlying call,
\* last.err the error the operation returned, last.sent what the operation
\* passed to the mapper's Offset and Limit, last.delta the number of rows
\* the call added to the table.
Call(op, arg, cause, err, out, sent) ==
    /\ last' = [op |-> op, arg |-> arg, cause |-> cause, err |-> err,
                out |-> out, sent |-> sent,
                delta |-> Len(table') - Len(table)]
    /\ prev' = IF op = "FindByID" THEN Written(last) ELSE NoWrite

\* A call of a method that returns the underlying error as it got it.
Returned(op, arg, err, out) == Call(op, arg, err, Forward(err), out, <<>>)

Init ==
    /\ db = NoDB
    /\ table = <<>>
    /\ nextID = 1
    /\ pc = "idle"
    /\ tx = NoTx
    /\ last = [op |-> "none", arg |-> ZeroRec, cause |-> NoError,
               err |-> NoError, out |-> ZeroRec, sent |-> <<>>, delta |-> 0]
    /\ prev = NoWrite

(* ------------------------------ Connection ----------------------------- *)
\* database/sql SetMaxIdleConns: n <= 0 keeps no idle connection; an idle
\* limit above a set open limit is lowered to it.
SetMaxIdleConns(pool, n) ==
    LET idle == IF n > 0 THEN n ELSE 0
    IN  [pool EXCEPT !.maxIdle = IF pool.maxOpen > 0 /\ idle > pool.maxOpen
                                 THEN pool.maxOpen ELSE idle]

\* database/sql SetMaxOpenConns: n <= 0 is no limit (kept as 0); an idle
\* limit above the new open limit is lowered to it.
SetMaxOpenConns(pool, n) ==
    LET open == IF n > 0 THEN n ELSE 0
    IN  [pool EXCEPT !.maxOpen = open,
                     !.maxIdle = IF open > 0 /\ @ > open THEN open ELSE @]

SetConnMaxLifetime(pool, d) == [pool EXCEPT !.maxLifetime = d]

\* The pool as sql.Open makes it: two idle connections kept, no limit on
\* the open ones, no lifetime.
FreshPool ==
    [state |-> "open", maxIdle |-> 2, maxOpen |-> 0, maxLifetime |-> 0]

\* New from the pool settings on.
Configured(cfg) ==
    SetConnMaxLifetime(
        SetMaxOpenConns(SetMaxIdleConns(FreshPool, cfg.MaxIdleConns),
                        cfg.MaxOpenConns),
        Hour)

\* New gone wrong: the error of db.DB() is dropped and the wrapper is
\* returned around a handle that was never obtained.
NewResultDropsPoolError(cfg, openOk, poolOk) ==
    IF ~openOk
    THEN [conn |-> NoDB, cause |-> ErrDial,
          err |-> Wrap("failed to connect to database", ErrDial)]
    ELSE [conn |-> IF poolOk THEN Configured(cfg)
                   ELSE [NoDB EXCEPT !.state = "invalid"],
          cause |-> NoError, err |-> NoError]

\* New: what it returns for a configuration, given whether gorm.Open and
\* then db.DB() succeed.
NewResult(cfg, openOk, poolOk) ==
    IF ~openOk
    THEN [conn |-> NoDB, cause |-> ErrDial,
          err |-> Wrap("failed to connect to database", ErrDial)]
    ELSE IF ~poolOk
    THEN [conn |-> NoDB, cause |-> ErrInvalidDB,
          err |-> Wrap("failed to get database instance", ErrInvalidDB)]
    ELSE [conn |-> Configured(cfg), cause |-> NoError, err |-> NoError]

New(cfg, openOk, poolOk) ==
    /\ pc = "idle"
    /\ db.state = "none"
    /\ UNCHANGED <<table, nextID, pc, tx>>
    /\ LET r == NewResult(cfg, openOk, poolOk)
       IN  /\ db' = r.conn
           /\ Call("New", cfg, r.cause, r.err, r.conn, <<>>)

\* Ping gone wrong: it stops at retrieving the handle and never probes.
PingResultNoProbe(d) == NoError

\* sql.DB Ping: a closed pool hands out no connection.
PingResult(d) == IF d.state = "open" THEN NoError ELSE ErrDBClosed

Ping ==
    /\ pc = "idle"
    /\ db.state # "none"
    /\ UNCHANGED <<db, table, nextID, pc, tx>>
    /\ Returned("Ping", ZeroRec, PingResult(db), ZeroRec)

\* sql.DB Close: closes the pool; closing a closed pool is no error.
Close ==
    /\ pc = "idle"
    /\ db.state # "none"
    /\ UNCHANGED <<table, nextID, pc, tx>>
    /\ db' = [db EXCEPT !.state = "closed"]
    /\ Returned("Close", ZeroRec, NoError, ZeroRec)

\* gorm AutoMigrate of the model T: its statements fail on a closed pool;
\* the table of a model that is already migrated is left as it is.
AutoMigrateResult(d) == IF d.state = "open" THEN NoError ELSE ErrDBClosed

AutoMigrate ==
    /\ pc = "idle"
    /\ db.state # "none"
    /\ UNCHANGED <<db, table, nextID, pc, tx>>
    /\ Returned("AutoMigrate", ZeroRec, AutoMigrateResult(db), ZeroRec)

\* What a WithTransaction call has to show: whether the callback was
\* invoked, whether the call returned (it does not when the callback
\* panics), what the callback returned, and the scope as it was left.
TxOutcome(invoked, returned, fnErr, panicked, scope) ==
    [invoked |-> invoked, returned |-> returned, fnErr |-> fnErr,
     panicked |-> panicked, scope |-> scope]

\* WithTransaction up to the callback: Begin on the pool.  A closed pool
\* gives no transaction and the callback is never invoked.  last.arg keeps
\* the rows as they were when the call was made.
WithTransaction ==
    /\ pc = "idle"
    /\ db.state # "none"
    /\ UNCHANGED <<db, table, nextID>>
    /\ IF db.state = "open"
       THEN /\ pc' = "fn"
            /\ tx' = [NoTx EXCEPT !.state = "open"]
            /\ Returned("WithTransaction", table, NoError,
                        TxOutcome(TRUE, FALSE, NoError, FALSE, tx'))
       ELSE /\ pc' = "idle"
            /\ tx' = NoTx
            /\ Returned("WithTransaction", table, ErrDBClosed,
                        TxOutcome(FALSE, TRUE, NoError, FALSE, NoTx))

\* WithTransaction from the callback's exit on: gorm commits or rolls back,
\* a commit that succeeds publishes the scope's writes, and the call
\* returns (or the panic goes on to the caller).
Exit(fnErr, panicked) ==
    LET r == Transaction(tx, fnErr, panicked)
    IN  /\ table' = IF Published(r.tx)
                    THEN ApplyPlaced(table, r.tx.log, r.tx.after)
                    ELSE table
        /\ tx' = NoTx
        /\ pc' = "idle"
        /\ last' = [last EXCEPT
                      !.cause = r.err,
                      !.err = Forward(r.err),
                      !.out = TxOutcome(TRUE, ~panicked, fnErr, panicked, r.tx),
                      !.delta = Len(table') - Len(table)]
        /\ UNCHANGED <<db, prev>>

\* The callback: a sequence of writes on tx, then nil; it may also fail on
\* its own account, or panic.  The error of a failed write is returned at
\* once, as the README writes it (`return err // Will cause rollback`), or
\* it is swallowed and the callback goes on in a scope that is now
\* aborted.  A statement in an aborted scope fails and changes nothing;
\* swallowing that error too leaves every variable as it is.
FnCreate(status, swallow) ==
    /\ pc = "fn"
    /\ Len(tx.log) + tx.repo < MaxTxWrites
    /\ IF tx.aborted
       THEN /\ ~swallow
            /\ Exit(ErrTxAborted, FALSE)
            /\ UNCHANGED nextID
       ELSE /\ nextID <= MaxID
            /\ nextID' = nextID + 1
            /\ LET rec == [ID |-> nextID, Status |-> status]
               IN  IF rec.ID \in IDs(Apply(table, tx.log))
                   THEN IF swallow
                        THEN /\ tx' = [tx EXCEPT !.aborted = TRUE]
                             /\ UNCHANGED <<db, table, pc, last, prev>>
                        ELSE Exit(ErrDuplicateKey, FALSE)
                   ELSE /\ ~swallow
                        /\ tx' = [tx EXCEPT !.log = Append(@, TxInsert(rec)),
                                            !.after = Append(@, {})]
                        /\ UNCHANGED <<db, table, pc, last, prev>>

FnDelete(k) ==
    /\ pc = "fn"
    /\ Len(tx.log) + tx.repo < MaxTxWrites
    /\ UNCHANGED nextID
    /\ IF tx.aborted
       THEN Exit(ErrTxAborted, FALSE)
       ELSE /\ k \in IDs(Apply(table, tx.log))
            /\ tx' = [tx EXCEPT
                        !.log = Append(@, TxRemove(ByKey(Apply(table, @), k)[1])),
                        !.after = Append(@, {})]
            /\ UNCHANGED <<db, table, pc, last, prev>>

\* A Repository write gone wrong: it runs on the handle of the open scope,
\* so it is one more write of the transaction.
FnRepositoryOnTx(op, model) ==
    /\ pc = "fn"
    /\ Len(tx.log) + tx.repo < MaxTxWrites
    /\ model.ID = ZeroID => nextID <= MaxID
    /\ LET view == Apply(table, tx.log)
           r == IF op = "Create" THEN GormCreate(view, nextID, model)
                ELSE IF op = "Update" THEN GormSave(view, nextID, model)
                ELSE GormDelete(view, nextID, model)
           w == IF op = "Create" THEN TxInsert(r.model)
                ELSE IF op = "Update" THEN TxSave(r.model)
                ELSE TxRemove(r.model)
       IN  /\ nextID' = r.nextID
           /\ IF r.err # NoError
              THEN Exit(r.err, FALSE)
              ELSE /\ tx' = [tx EXCEPT !.log = Append(@, w),
                                       !.after = Append(@, {}),
                                       !.repo = @ + 1]
                   /\ UNCHANGED <<db, table, pc, last, prev>>

\* Whether a Repository write on the pool waits for the open scope
\* (PostgreSQL, READ COMMITTED).  An insert, and the insert or update of a
\* Save, waits when the scope has written the key and not yet committed.
\* A Delete waits only for a committed row the scope has deleted: a row
\* the scope has only inserted is invisible to the pool, and a Delete
\* without a key sends no statement at all.
WaitsForScope(op, model, t, nid, log) ==
    IF op = "Delete"
    THEN /\ model.ID # ZeroID
         /\ model.ID \in IDs(t)
         /\ model.ID \in LogKeys(log)
    ELSE (IF model.ID = ZeroID THEN nid ELSE model.ID) \in LogKeys(log)

\* A Repository write (Create, Update, Delete) issued by the callback: the
\* Repository holds the *DB it was built with, so the statement runs on the
\* pool, outside the scope, and is committed at once; a row it writes
\* lies behind every row the scope has inserted so far.  A statement that
\* waits for the scope cannot end while the callback is in the call: such
\* a call never returns.  An error is returned by the callback at once,
\* like that of a write on tx.
FnRepository(op, model) ==
    /\ pc = "fn"
    /\ Len(tx.log) + tx.repo < MaxTxWrites
    /\ (op # "Delete" /\ model.ID = ZeroID) => nextID <= MaxID
    /\ ~WaitsForScope(op, model, table, nextID, tx.log)
    /\ LET r == IF op = "Create" THEN GormCreate(table, nextID, model)
                ELSE IF op = "Update" THEN GormSave(table, nextID, model)
                ELSE GormDelete(table, nextID, model)
       IN  /\ nextID' = r.nextID
           /\ IF r.err # NoError
              THEN Exit(r.err, FALSE)
              ELSE /\ table' = r.table
                   /\ tx' = [tx EXCEPT
                               !.repo = @ + 1,
                               !.after = IF op = "Delete" THEN @
                                         ELSE [i \in DOMAIN @ |->
                                                 @[i] \cup {r.model.ID}]]
                   /\ UNCHANGED <<db, pc, last, prev>>

FnReturn(err) ==
    /\ pc = "fn"
    /\ Exit(err, FALSE)
    /\ UNCHANGED nextID

FnPanic ==
    /\ pc = "fn"
    /\ Exit(NoError, TRUE)
    /\ UNCHANGED nextID

(* ------------------------------ Repository ----------------------------- *)
\* A Repository call reaches the mapper only through an open pool.
Ready == pc = "idle" /\ db.state # "none"

Create(model) ==
    /\ Ready
    /\ (db.state = "open" /\ model.ID = ZeroID) => nextID <= MaxID
    /\ LET r == IF db.state = "open" THEN GormCreate(table, nextID, model)
                ELSE Failed(ErrDBClosed, model, table, nextID)
       IN  /\ table' = r.table
           /\ nextID' = r.nextID
           /\ Returned("Create", model, r.err, r.model)
    /\ UNCHANGED <<db, pc, tx>>

\* FindByID(id, result): First(result, id).  last.out is *result after the
\* call.
FindByID(id, result) ==
    /\ Ready
    /\ UNCHANGED <<db, table, nextID, pc, tx>>
    /\ LET r == IF db.state = "open"
                THEN GormFirst(KeyCondition(table, id), result)
                ELSE [err |-> ErrDBClosed, out |-> result]
       IN  Returned("FindByID", [id |-> id, result |-> result], r.err, r.out)

FindAll ==
    /\ Ready
    /\ UNCHANGED <<db, table, nextID, pc, tx>>
    /\ IF db.state = "open"
       THEN Returned("FindAll", ZeroRec, NoError, table)
       ELSE Returned("FindAll", ZeroRec, ErrDBClosed, <<>>)

FindWhere(query) ==
    /\ Ready
    /\ UNCHANGED <<db, table, nextID, pc, tx>>
    /\ IF db.state = "open"
       THEN Returned("FindWhere", query, NoError, Where(table, query))
       ELSE Returned("FindWhere", query, ErrDBClosed, <<>>)

FindOne(query, result) ==
    /\ Ready
    /\ UNCHANGED <<db, table, nextID, pc, tx>>
    /\ LET r == IF db.state = "open"
                THEN GormFirst(Where(table, query), result)
                ELSE [err |-> ErrDBClosed, out |-> result]
       IN  Returned("FindOne", [query |-> query, result |-> result],
                    r.err, r.out)

Update(model) ==
    /\ Ready
    /\ (db.state = "open" /\ model.ID = ZeroID) => nextID <= MaxID
    /\ LET r == IF db.state = "open" THEN GormSave(table, nextID, model)
                ELSE Failed(ErrDBClosed, model, table, nextID)
       IN  /\ table' = r.table
           /\ nextID' = r.nextID
           /\ Returned("Update", model, r.err, r.model)
    /\ UNCHANGED <<db, pc, tx>>

Delete(model) ==
    /\ Ready
    /\ LET r == IF db.state = "open" THEN GormDelete(table, nextID, model)
                ELSE Failed(ErrDBClosed, model, table, nextID)
       IN  /\ table' = r.table
           /\ nextID' = r.nextID
           /\ Returned("Delete", model, r.err, r.model)
    /\ UNCHANGED <<db, pc, tx>>

\* Count gone wrong: the filtered handle is built and then not used.
CountResultUnfiltered(t, query) == Len(t)

\* Count: the query is applied only when it is not nil; the count is of the
\* rows left.  *count stays 0 when the statement fails.
CountResult(t, query) ==
    LET rows == IF ~query.nil THEN Where(t, query) ELSE t
    IN  Len(rows)

Count(query) ==
    /\ Ready
    /\ UNCHANGED <<db, table, nextID, pc, tx>>
    /\ IF db.state = "open"
       THEN Returned("Count", query, NoError, CountResult(table, query))
       ELSE Returned("Count", query, ErrDBClosed, 0)

\* The offset gone wrong: pages counted from 0.
PageOffsetZeroBased(page, pageSize) == page * pageSize

\* The offset gone wrong: a page below 1 is taken for page 1.
PageOffsetClamped(page, pageSize) ==
    IF page < 1 THEN 0 ELSE (page - 1) * pageSize

\* Paginate: offset := (page - 1) * pageSize, then Offset.Limit.Find.
PageOffset(page, pageSize) == (page - 1) * pageSize

\* What Paginate passes to the mapper: Offset(offset).Limit(pageSize).
PaginateSent(page, pageSize) == <<PageOffset(page, pageSize), pageSize>>

PaginateResult(t, page, pageSize, zeroLimit) ==
    LET sent == PaginateSent(page, pageSize)
    IN  OffsetLimit(t, sent[1], sent[2], zeroLimit)

Paginate(page, pageSize, zeroLimit) ==
    /\ Ready
    /\ UNCHANGED <<db, table, nextID, pc, tx>>
    /\ IF db.state = "open"
       THEN Call("Paginate", <<page, pageSize>>, NoError, Forward(NoError),
                 PaginateResult(table, page, pageSize, zeroLimit),
                 PaginateSent(page, pageSize))
       ELSE Call("Paginate", <<page, pageSize>>, ErrDBClosed,
                 Forward(ErrDBClosed), <<>>, PaginateSent(page, pageSize))

\* The methods Repository[T] has.
RepositoryMethods ==
    {"Create", "FindByID", "FindAll", "FindWhere", "FindOne", "Update",
     "Delete", "Count", "Paginate"}

(* ---------------------------- specification ---------------------------- *)
Pages == 0..MaxPage
PageSizes == -1..MaxPageSize
\* The ids and the results handed to FindByID and FindOne: a result is a
\* fresh variable or one that holds a row from an earlier call.
IDArgs == {NilArg} \cup {KeyArg(k) : k \in {ZeroID} \cup Keys}
Results == {ZeroRec} \cup {[ID |-> k, Status |-> "active"] : k \in Keys}

\* The library on a Connection made from the default configuration.
Next ==
    \/ \E openOk \in BOOLEAN, poolOk \in BOOLEAN :
          New(DefaultConfig, openOk, poolOk)
    \/ Ping
    \/ Close
    \/ AutoMigrate
    \/ WithTransaction
    \/ \E s \in Statuses, swallow \in BOOLEAN : FnCreate(s, swallow)
    \/ \E k \in Keys : FnDelete(k)
    \/ \E e \in {NoError, ErrCallback} : FnReturn(e)
    \/ FnPanic
    \/ \E m \in Models : Create(m)
    \/ \E id \in IDArgs, result \in Results : FindByID(id, result)
    \/ FindAll
    \/ \E q \in Queries : FindWhere(q)
    \/ \E q \in Queries, result \in Results : FindOne(q, result)
    \/ \E m \in Models : Update(m)
    \/ \E m \in Models : Delete(m)
    \/ \E q \in {NilQuery} \cup Queries : Count(q)
    \/ \E p \in Pages, n \in PageSizes :
          \E z \in (IF n = 0 THEN BOOLEAN ELSE {TRUE}) : Paginate(p, n, z)

Spec == Init /\ [][Next]_vars

\* The library used by a callback that also writes through a Repository
\* built on the same Connection: the writes of a Repository, and
\* WithTransaction with such a callback.
NextRepositoryInFn ==
    \/ \E openOk \in BOOLEAN, poolOk \in BOOLEAN :
          New(DefaultConfig, openOk, poolOk)
    \/ \E m \in Models : Create(m)
    \/ \E m \in Models : Update(m)
    \/ \E m \in Models : Delete(m)
    \/ WithTransaction
    \/ \E s \in Statuses, swallow \in BOOLEAN : FnCreate(s, swallow)
    \/ \E k \in Keys : FnDelete(k)
    \/ \E op \in {"Create", "Update", "Delete"}, m \in Models :
          FnRepository(op, m)
    \/ \E e \in {NoError, ErrCallback} : FnReturn(e)
    \/ FnPanic

SpecRepositoryInFn == Init /\ [][NextRepositoryInFn]_vars

\* The life of a Connection, for every configuration: New, the calls on
\* the Connection itself, and Create as the use made of it.
NextConnection ==
    \/ \E cfg \in Configs, openOk \in BOOLEAN, poolOk \in BOOLEAN :
          New(cfg, openOk, poolOk)
    \/ Ping
    \/ Close
    \/ AutoMigrate
    \/ \E m \in Models : Create(m)

SpecConnection == Init /\ [][NextConnection]_vars

(* ------------------------------- claims -------------------------------- *)
\* A WithTransaction call whose callback was invoked and which is over.
TxOver == last.op = "WithTransaction" /\ pc = "idle" /\ last.out.invoked

\* C1 as stated, for every callback: when the callback of WithTransaction
\* returns an error, the rows after the call are the rows before it (none
\* of the callback's writes is visible) and the call returns the
\* callback's error; when the callback returns nil, the rows after the
\* call are the rows before it with every write of the callback applied.
C1_TransactionAtomic ==
    (TxOver /\ last.out.returned) =>
        /\ last.out.fnErr # NoError =>
              (last.err = last.out.fnErr /\ table = last.arg)
        /\ last.out.fnErr = NoError =>
              table = Apply(last.arg, last.out.scope.log)

\* C1: of the writes the callback made on tx.  While the callback runs
\* they leave the committed rows alone.  When the callback returns an
\* error the call returns that error and the committed rows stay as they
\* are, so none of those writes is visible; when it returns nil and the
\* commit succeeds, the committed rows get every one of those writes; when
\* it returns nil in a scope a failed statement has aborted, the commit
\* fails, the call returns the commit's error and none of those writes is
\* visible.  The rows after a commit are, as a set, the rows before it with
\* the writes applied, and each inserted row lies where it was written.
\* When the callback wrote nothing through a Repository, the
\* committed rows at its return are the rows of before the call.
C1_TransactionAtomicOnTx ==
    [][ /\ (pc = "fn" /\ pc' = "fn" /\ tx'.log # tx.log) => table' = table
        /\ (pc = "fn" /\ pc' = "idle" /\ last'.out.returned) =>
              LET fnErr == last'.out.fnErr
              IN  /\ fnErr # NoError =>
                        (last'.err = fnErr /\ table' = table)
                  /\ (fnErr = NoError /\ ~tx.aborted) =>
                        /\ last'.err = NoError
                        /\ table' = ApplyPlaced(table, tx.log, tx.after)
                        /\ LET all == Apply(table, tx.log)
                           IN  {table'[i] : i \in DOMAIN table'} =
                                  {all[i] : i \in DOMAIN all}
                  /\ (fnErr = NoError /\ tx.aborted) =>
                        (last'.err = ErrTxCommitRollback /\ table' = table)
                  /\ tx.repo = 0 => table = last'.arg
      ]_vars

\* C1 witness: a callback wrote twice, then returned an error.
C1_Witness ==
    /\ TxOver
    /\ last.out.fnErr = ErrCallback
    /\ Len(last.out.scope.log) >= 2
    /\ Apply(last.arg, last.out.scope.log) # last.arg

\* C2: a scope opened by WithTransaction is ended exactly once, by a
\* rollback when the callback returned an error or panicked and by a commit
\* otherwise, and no scope is open once WithTransaction is over.
C2_ScopeEndedOnce ==
    /\ pc = "idle" => tx.state = "none"
    /\ TxOver =>
          LET sc == last.out.scope
              failed == last.out.fnErr # NoError \/ last.out.panicked
          IN  /\ sc.state \in {"committed", "rolledback"}
              /\ sc.commits + sc.rollbacks = 1
              /\ sc.rollbacks = (IF failed THEN 1 ELSE 0)
              /\ sc.state = (IF failed THEN "rolledback" ELSE "committed")

\* C2 witness: a callback wrote once and then panicked.
C2_Witness ==
    /\ TxOver
    /\ last.out.panicked
    /\ Len(last.out.scope.log) = 1
    /\ last.out.scope.rollbacks = 1

\* C3: a Ping on a Connection that has been closed fails, and its error is
\* a ConnectionError.
C3_PingAfterCloseFails ==
    (last.op = "Ping" /\ db.state = "closed") =>
        (last.err # NoError /\ ErrorKind(last.err) = "ConnectionError")

\* C3 witness: a Ping has returned on a closed Connection.
C3_Witness == last.op = "Ping" /\ db.state = "closed"

\* C4: New returns either a Connection with a valid handle, the
\* configuration's pool limits as database/sql keeps them (a limit that is
\* not positive is 0: no idle connection kept, no limit on the open ones;
\* the idle limit is at most a positive open limit) and the one-hour
\* lifetime, and no error, or no Connection and a ConnectionError.
C4_NewAllOrNothing ==
    last.op = "New" =>
        \/ /\ last.err = NoError
           /\ last.out.state = "open"
           /\ LET idle == last.arg.MaxIdleConns
                  open == last.arg.MaxOpenConns
              IN  /\ last.out.maxOpen = (IF open > 0 THEN open ELSE 0)
                  /\ last.out.maxIdle =
                        (IF idle <= 0 THEN 0
                         ELSE IF open > 0 /\ idle > open THEN open
                         ELSE idle)
           /\ last.out.maxLifetime = Hour
           /\ db = last.out
        \/ /\ last.err # NoError
           /\ ErrorKind(last.err) = "ConnectionError"
           /\ last.out = NoDB
           /\ db = NoDB

\* C4 witness: New has returned a Connection for an idle limit of 10 above
\* an open limit of 5, and the pool keeps 5 idle connections.
C4_Witness ==
    /\ last.op = "New"
    /\ last.err = NoError
    /\ last.arg = Limits(10, 5)
    /\ db.state = "open"
    /\ db.maxIdle = 5 /\ db.maxOpen = 5

\* A FindByID(k, &out) for the key of the record the call before it wrote.
LooksUpWritten ==
    /\ last.op = "FindByID"
    /\ last.arg.id = KeyArg(prev.rec.ID)

\* C5 as stated, for every out: a FindByID(k, &out) right after a
\* successful Create that generated the key k succeeds and yields the
\* created record.
C5_CreateThenFindByID ==
    (prev.op = "Create" /\ prev.generated /\ LooksUpWritten) =>
        /\ last.err = NoError
        /\ last.out.ID = prev.rec.ID
        /\ last.out.Status = prev.rec.Status

\* C5: a FindByID(k, &out) right after a successful Create that generated
\* the key k, into an out whose primary key is zero or k, succeeds and
\* yields the created record: key k, and the fields the caller set.
C5_CreateThenFindByIDFreshOut ==
    (prev.op = "Create" /\ prev.generated /\ LooksUpWritten
        /\ last.arg.result.ID \in {ZeroID, prev.rec.ID}) =>
        /\ last.err = NoError
        /\ last.out.ID = prev.rec.ID
        /\ last.out.Status = prev.rec.Status

\* C5 witness: the record was created beside another one of the other
\* status, and then found.
C5_Witness ==
    /\ prev.op = "Create" /\ prev.generated /\ LooksUpWritten
    /\ last.arg.result = ZeroRec
    /\ Len(table) = 2
    /\ table[1].Status # table[2].Status

\* C6: a FindByID(k, &out) right after a successful Delete of the stored
\* record of key k returns the not-found error, whatever out holds, and
\* leaves out as it was.
C6_DeleteThenFindByID ==
    (last.op = "FindByID" /\ prev.op = "Delete" /\ prev.delta = -1
        /\ last.arg.id = KeyArg(prev.rec.ID)) =>
        /\ last.err = ErrRecordNotFound
        /\ ErrorKind(last.err) = "NotFoundError"
        /\ last.out = last.arg.result

\* C6 witness: a stored record was deleted, another one is left, and the
\* deleted key was looked up.
C6_Witness ==
    /\ last.op = "FindByID" /\ prev.op = "Delete" /\ prev.delta = -1
    /\ last.arg.id = KeyArg(prev.rec.ID)
    /\ Len(table) = 1
    /\ last.arg.result.ID = table[1].ID

\* C7 as stated, for every out: a successful Update of a record whose key
\* is not in the table adds that record, and a FindByID of the key right
\* after it returns the record, whatever out holds; a successful Update of
\* a record whose key is in the table overwrites that row with the record,
\* leaves every other row as it was, in the order they had, and leaves the
\* number of rows unchanged.
C7_UpdateIsSave ==
    [][/\ (last'.op = "Update" /\ last'.err = NoError) =>
            LET m == last'.arg
                saved == last'.out
            IN  /\ saved.Status = m.Status
                /\ m.ID # ZeroID => saved = m
                /\ ByKey(table', saved.ID) = <<saved>>
                /\ IF m.ID \in IDs(table)
                   THEN /\ Len(table') = Len(table)
                        /\ Without(table', m.ID) = Without(table, m.ID)
                   ELSE table' = Append(table, saved)
       /\ (prev'.op = "Update" /\ LooksUpWritten') =>
            (last'.err = NoError /\ last'.out = prev'.rec)
      ]_vars

\* C7: a successful Update of a record whose key is not in the table adds
\* that record, and a FindByID of the key right after it, into an out
\* whose primary key is zero or that key, returns the record; a successful
\* Update of a record whose key is in the table overwrites that row with
\* the record, leaves every other row as it was, in the order they had, and
\* leaves the number of rows unchanged.
C7_UpdateIsSaveFreshOut ==
    [][/\ (last'.op = "Update" /\ last'.err = NoError) =>
            LET m == last'.arg
                saved == last'.out
            IN  /\ saved.Status = m.Status
                /\ m.ID # ZeroID => saved = m
                /\ ByKey(table', saved.ID) = <<saved>>
                /\ IF m.ID \in IDs(table)
                   THEN /\ Len(table') = Len(table)
                        /\ Without(table', m.ID) = Without(table, m.ID)
                   ELSE table' = Append(table, saved)
       /\ (prev'.op = "Update" /\ LooksUpWritten'
              /\ last'.arg.result.ID \in {ZeroID, prev'.rec.ID}) =>
            (last'.err = NoError /\ last'.out = prev'.rec)
      ]_vars

\* C7 witness: an Update under a key that was not in the table added the
\* record, and the key was then looked up.
C7_Witness ==
    /\ prev.op = "Update" /\ LooksUpWritten
    /\ ~prev.generated /\ prev.delta = 1
    /\ last.arg.result = ZeroRec
    /\ Len(table) = 2

\* Paginate on the table of the spec's scenario: 25 rows, pages of 10.
Rows25 == [i \in 1..25 |-> [ID |-> i, Status |-> "active"]]
PaginateExample ==
    \A z \in BOOLEAN :
        /\ PaginateResult(Rows25, 1, 10, z) = SubSeq(Rows25, 1, 10)
        /\ PaginateResult(Rows25, 3, 10, z) = SubSeq(Rows25, 21, 25)
        /\ Len(PaginateResult(Rows25, 3, 10, z)) = 5

\* What the claim says of a page: at most pageSize rows, the row at
\* position i (from 0) being the row at offset (page-1)*pageSize + i of the
\* table, and no row of that range left out.
PageIsSlice(t, page, pageSize, out) ==
    LET offset == (page - 1) * pageSize
    IN  /\ Len(out) <= pageSize
        /\ \A i \in 0..(Len(out) - 1) :
              /\ offset + i + 1 \in DOMAIN t
              /\ out[i + 1] = t[offset + i + 1]
        /\ \A j \in DOMAIN t :
              (offset < j /\ j <= offset + pageSize) => j - offset \in DOMAIN out

\* C8 (as amended): for every page >= 1 and page size >= 1, Paginate
\* returns at most pageSize rows, the row at position i being the row at
\* offset (page-1)*pageSize + i of the table in its default order; with 25
\* rows, page 1 of size 10 is rows 1-10 and page 3 is rows 21-25.
C8_PaginateSlice ==
    (last.op = "Paginate" /\ last.err = NoError
        /\ last.arg[1] >= 1 /\ last.arg[2] >= 1) =>
        /\ PaginateExample
        /\ PageIsSlice(table, last.arg[1], last.arg[2], last.out)

\* C8 witness: the second page of size 1 of a table of two rows.
C8_Witness ==
    /\ last.op = "Paginate" /\ last.err = NoError
    /\ last.arg = <<2, 1>>
    /\ Len(table) = 2
    /\ last.out = <<table[2]>>

\* C8 as claimed: the same for every page >= 1 and every page size.
C8_PaginateAnySize ==
    (last.op = "Paginate" /\ last.err = NoError /\ last.arg[1] >= 1) =>
        PageIsSlice(table, last.arg[1], last.arg[2], last.out)

\* C9 as claimed: a repository on an open Connection has a PaginateWhere
\* method (whose result would be a slice of FindWhere's).
C9_PaginateWhereOffered ==
    db.state = "open" => "PaginateWhere" \in RepositoryMethods

\* Count on the table of the spec's scenario: 3 active rows, 2 inactive.
Rows3Active2Inactive ==
    [i \in 1..5 |-> [ID |-> i, Status |-> IF i <= 3 THEN "active" ELSE "inactive"]]
CountExample ==
    /\ CountResult(Rows3Active2Inactive, StatusIs("active")) = 3
    /\ CountResult(Rows3Active2Inactive, NilQuery) = 5

\* C10: a Count that succeeds sets n to the number of rows matching the
\* query, or to the number of all rows when the query is nil (3 for
\* "status = active" over 3 active and 2 inactive rows), and no Count
\* changes a row.
C10_CountMatches ==
    [][last'.op = "Count" =>
          /\ CountExample
          /\ table' = table
          /\ last'.err = NoError =>
                last'.out =
                   Cardinality({i \in DOMAIN table :
                                   \/ last'.arg.nil
                                   \/ table[i].Status = last'.arg.status})
      ]_vars

\* C10 witness: a filtered Count over one matching and one other row.
C10_Witness ==
    /\ last.op = "Count" /\ last.err = NoError
    /\ last.arg = StatusIs("active")
    /\ Len(table) = 2
    /\ last.out = 1

\* The operations of the library, and a call of one that has returned.
Operations ==
    RepositoryMethods \cup {"New", "Ping", "Close", "AutoMigrate", "WithTransaction"}

HasReturned ==
    /\ last.op \in Operations
    /\ last.op = "WithTransaction" => last.out.returned

\* C11 as stated: every operation, New among them, returns the error of
\* the underlying call unchanged.
C11_ErrorUnchanged == HasReturned => last.err = last.cause

\* C11: every Repository operation and Ping, Close, AutoMigrate and
\* WithTransaction return the error of the underlying call unchanged; New
\* returns it wrapped once (%w) under a message of its own; no operation
\* reports success when the underlying call failed, and an operation on a
\* closed pool fails with the pool's error.
C11_ErrorForwarded ==
    HasReturned =>
        /\ last.op # "New" => last.err = last.cause
        /\ last.op = "New" =>
              IF last.cause = NoError THEN last.err = NoError
              ELSE /\ Len(last.err) = Len(last.cause) + 1
                   /\ SubSeq(last.err, 2, Len(last.err)) = last.cause
        /\ last.cause # NoError => last.err # NoError
        /\ (db.state = "closed"
              /\ last.op \in RepositoryMethods \cup {"Ping", "WithTransaction"})
               => last.err = ErrDBClosed

\* C11 witness: New failed at gorm.Open and returned the driver's error
\* under its own message.
C11_Witness ==
    /\ last.op = "New"
    /\ last.cause = ErrDial
    /\ last.err = <<"failed to connect to database">> \o ErrDial
    /\ db = NoDB

\* C12: for every page and page size, Paginate passes to the mapper the
\* offset (page-1)*pageSize and the limit pageSize as they are, with no
\* guard for values that are not positive: page 0 with a positive page
\* size gives the offset -pageSize, and on an open pool Paginate returns
\* no error for any of them.
C12_PaginateUnguarded ==
    last.op = "Paginate" =>
        LET page == last.arg[1]
            pageSize == last.arg[2]
        IN  /\ last.sent = <<(page - 1) * pageSize, pageSize>>
            /\ (page = 0 /\ pageSize > 0) => last.sent[1] = -pageSize
            /\ db.state = "open" => last.err = NoError

\* C12 witness: page 0 of size 2 on an open pool with rows: the offset
\* passed is -2, no error comes back, and the rows are those of page 1.
C12_Witness ==
    /\ last.op = "Paginate"
    /\ last.arg = <<0, 2>>
    /\ db.state = "open"
    /\ last.sent = <<-2, 2>>
    /\ last.err = NoError
    /\ Len(table) >= 2
    /\ last.out = SubSeq(table, 1, 2)

\* The writes a Repository call can make on a table: an insert, an
\* overwrite or insert, or a removal, of a record with a key.
RepositoryWrites ==
    LET recs == {r \in Models : r.ID # ZeroID}
    IN  {TxInsert(r) : r \in recs} \cup {TxSave(r) : r \in recs}
            \cup {TxRemove(r) : r \in recs}

\* C13: a Repository write issued by the callback of WithTransaction runs
\* on the Connection the Repository was built with and not on the scope:
\* it changes the committed rows at once and adds nothing to the scope's
\* writes, and when the scope is rolled back the committed rows, that
\* write among them, stay as they are.
C13_RepositoryOutsideScope ==
    [][ /\ (pc = "fn" /\ pc' = "fn" /\ tx'.repo # tx.repo) =>
              /\ tx'.log = tx.log
              /\ \E w \in RepositoryWrites : table' = ApplyWrite(table, w)
        /\ (pc = "fn" /\ pc' = "idle"
              /\ last'.out.scope.state = "rolledback") =>
              table' = table
      ]_vars

\* C13 witness: the callback wrote once on tx and created a row through
\* the Repository, then returned an error; the scope was rolled back and
\* the Repository's row is in the table.
C13_Witness ==
    /\ TxOver
    /\ last.out.returned
    /\ last.out.fnErr = ErrCallback
    /\ last.out.scope.state = "rolledback"
    /\ Len(last.out.scope.log) = 1
    /\ last.out.scope.repo = 1
    /\ Len(table) = Len(last.arg) + 1
    /\ \E i \in 1..Len(table) : table[i].ID \notin IDs(last.arg)

====
